---- MODULE Spec2Model ----
(***************************************************************************)
(* Model of the Puget Sound tide-book page generator (generate_pdf.js,     *)
(* fetch_data.js, moon_phases.js).                                         *)
(*                                                                         *)
(* Conventions                                                             *)
(*  - A JavaScript string is a sequence of one-character strings, so that  *)
(*    startsWith, split, padStart and template literals are computed and   *)
(*    not assumed.  Text handed to the canvas is a sequence of string      *)
(*    fragments (a literal such as a station name is one fragment).        *)
(*  - A JavaScript value that may be a string, a number or undefined is a  *)
(*    record tagged with its typeof.                                       *)
(*  - Lengths are in tenths of a point (LenUnit per point), so             *)
(*    sizes.lineSpacing = 0.5 is the integer 5 and dividerX = 129.6 is     *)
(*    1296.  Illumination is in units of 1/PhaseUnit.                      *)
(*    Tide heights are in hundredths of a foot, velocities in hundredths   *)
(*    of a knot, instants in minutes.                                      *)
(***************************************************************************)
EXTENDS Integers, Sequences, FiniteSets, TLC

VARIABLES
    pc,                 \* position of generatePdf
    startDate, endDate, \* the date range (generate_pdf.js:150-152)
    day,                \* loop variable of the driver loop (line 172)
    noaa,               \* what the provider answers, per station name
    allCurrentData,     \* line 158
    allTideData,        \* line 162
    allHourlyTideData,  \* line 163
    idx,                \* position in the station catalog being iterated
    book,               \* document-level calls so far: addPage / first drawing of a day
    page,               \* canvas calls made on the page being drawn
    blocks,             \* station blocks completed on the page being drawn
    currentsY, tidesY,  \* the two column cursors (lines 206, 231)
    phase,              \* moonIllumination.phase of the page (line 179)
    moonPhaseName       \* line 180

vars == << pc, startDate, endDate, day, noaa, allCurrentData, allTideData,
           allHourlyTideData, idx, book, page, blocks, currentsY, tidesY,
           phase, moonPhaseName >>

-----------------------------------------------------------------------------
(* Bounds of the model *)

\* longest rendered date range, in days
MaxDays == 2
\* most events a station has on one day in the provider's answers
MaxPerDay == 4

-----------------------------------------------------------------------------
(* Units *)

\* length units per point: lengths are in tenths of a point
LenUnit == 10
\* illumination units per full cycle: 0.0625 is 625 when PhaseUnit is 10000
PhaseUnit == 10000

-----------------------------------------------------------------------------
(* JavaScript strings and values *)

Digits == << "0", "1", "2", "3", "4", "5", "6", "7", "8", "9" >>

RECURSIVE NumToString(_)
\* Number.prototype.toString for a non-negative integer
NumToString(n) ==
    IF n < 10 THEN << Digits[n + 1] >>
    ELSE NumToString(n \div 10) \o << Digits[(n % 10) + 1] >>

RECURSIVE padStart(_, _, _)
\* String.prototype.padStart with a one-character filler
padStart(s, len, fill) ==
    IF Len(s) >= len THEN s ELSE padStart(<< fill >> \o s, len, fill)

\* String.prototype.startsWith
startsWith(s, prefix) ==
    /\ Len(s) >= Len(prefix)
    /\ SubSeq(s, 1, Len(prefix)) = prefix

RECURSIVE SplitFrom(_, _, _)
SplitFrom(s, i, cur) ==
    IF i > Len(s) THEN << cur >>
    ELSE IF s[i] = " " THEN << cur >> \o SplitFrom(s, i + 1, << >>)
    ELSE SplitFrom(s, i + 1, Append(cur, s[i]))

\* String.prototype.split(' ')
split(s) == SplitFrom(s, 1, << >>)

JsString(s) == [type |-> "string", s |-> s]
JsNumber(n) == [type |-> "number", n |-> n]
Undefined == [type |-> "undefined"]

\* property read p.f of an object that may lack the property
Get(p, f) == IF f \in DOMAIN p THEN p[f] ELSE Undefined

\* JavaScript truthiness of a value
Truthy(v) ==
    CASE v.type = "string" -> v.s # << >>
      [] v.type = "number" -> v.n # 0
      [] OTHER -> FALSE

\* generate_pdf.js:7-11
formatTime(dateTimeString) ==
    IF ~Truthy(dateTimeString) \/ dateTimeString.type # "string" THEN << >>
    ELSE LET parts == split(dateTimeString.s)
         IN  IF Len(parts) = 2 THEN parts[2] ELSE << >>

-----------------------------------------------------------------------------
(* Dates *)

year == 2026

IsLeap(y) == (y % 4 = 0 /\ y % 100 # 0) \/ y % 400 = 0

DaysInMonth(y, m) ==
    IF m = 2 THEN (IF IsLeap(y) THEN 28 + 1 ELSE 28)
    ELSE IF m \in {4, 6, 9, 11} THEN 30
    ELSE 31

\* new Date(y, m0, d) with a zero-based month, as a calendar date
NewDate(y, m0, d) == [y |-> y, m |-> m0 + 1, d |-> d]

\* day.setDate(day.getDate() + 1)
NextDay(dt) ==
    IF dt.d < DaysInMonth(dt.y, dt.m) THEN [dt EXCEPT !.d = dt.d + 1]
    ELSE IF dt.m < 12 THEN [y |-> dt.y, m |-> dt.m + 1, d |-> 1]
    ELSE [y |-> dt.y + 1, m |-> 1, d |-> 1]

\* a < b on Date objects (comparison of their time values)
DateLess(a, b) ==
    \/ a.y < b.y
    \/ a.y = b.y /\ a.m < b.m
    \/ a.y = b.y /\ a.m = b.m /\ a.d < b.d

DateLeq(a, b) == a = b \/ DateLess(a, b)

RECURSIVE PlusDays(_, _)
PlusDays(dt, k) == IF k = 0 THEN dt ELSE PlusDays(NextDay(dt), k - 1)

RECURSIVE DaysBetween(_, _)
\* the calendar days a..b inclusive, in order (empty when b < a)
DaysBetween(a, b) ==
    IF DateLess(b, a) THEN << >> ELSE << a >> \o DaysBetween(NextDay(a), b)

\* generate_pdf.js:204
dayString(date) ==
    NumToString(date.y) \o << "-" >>
        \o padStart(NumToString(date.m), 2, "0") \o << "-" >>
        \o padStart(NumToString(date.d), 2, "0")

-----------------------------------------------------------------------------
(* Moon phase classifier and icon *)

getMoonPhaseName_ClosedFull(p) ==
    IF p * 10000 < 625 * PhaseUnit THEN "New Moon"
    ELSE IF p * 10000 < 1875 * PhaseUnit THEN "Waxing Crescent"
    ELSE IF p * 10000 < 3125 * PhaseUnit THEN "First Quarter"
    ELSE IF p * 10000 < 4375 * PhaseUnit THEN "Waxing Gibbous"
    ELSE IF p * 10000 <= 5625 * PhaseUnit THEN "Full Moon"
    ELSE IF p * 10000 < 6875 * PhaseUnit THEN "Waning Gibbous"
    ELSE IF p * 10000 < 8125 * PhaseUnit THEN "Last Quarter"
    ELSE IF p * 10000 < 9375 * PhaseUnit THEN "Waning Crescent"
    ELSE "New Moon"

\* generate_pdf.js:271-281; p is the illumination in units of 1/PhaseUnit
getMoonPhaseName(p) ==
    IF p * 10000 < 625 * PhaseUnit THEN "New Moon"
    ELSE IF p * 10000 < 1875 * PhaseUnit THEN "Waxing Crescent"
    ELSE IF p * 10000 < 3125 * PhaseUnit THEN "First Quarter"
    ELSE IF p * 10000 < 4375 * PhaseUnit THEN "Waxing Gibbous"
    ELSE IF p * 10000 < 5625 * PhaseUnit THEN "Full Moon"
    ELSE IF p * 10000 < 6875 * PhaseUnit THEN "Waning Gibbous"
    ELSE IF p * 10000 < 8125 * PhaseUnit THEN "Last Quarter"
    ELSE IF p * 10000 < 9375 * PhaseUnit THEN "Waning Crescent"
    ELSE "New Moon"

\* moon_phases.js: the keys that have a silhouette path
moonPhases ==
    { "waxing_crescent", "first_quarter", "waxing_gibbous",
      "waning_gibbous", "last_quarter", "waning_crescent" }

\* getMoonPhaseName(phase).toLowerCase().replace(' ', '_')
PhaseKey(name) ==
    CASE name = "New Moon" -> "new_moon"
      [] name = "Waxing Crescent" -> "waxing_crescent"
      [] name = "First Quarter" -> "first_quarter"
      [] name = "Waxing Gibbous" -> "waxing_gibbous"
      [] name = "Full Moon" -> "full_moon"
      [] name = "Waning Gibbous" -> "waning_gibbous"
      [] name = "Last Quarter" -> "last_quarter"
      [] name = "Waning Crescent" -> "waning_crescent"

drawMoonIcon_FullFromName(x, y, p, radius) ==
    LET phaseName == PhaseKey(getMoonPhaseName(p))
        disc(c) == [src |-> "moon", op |-> "circle", x |-> x, y |-> y,
                    r |-> radius, fill |-> c]
    IN  << disc("dark") >> \o
        ( IF phaseName = "new_moon" THEN << >>
          ELSE IF phaseName \in {"full_moon", "waning_gibbous"}
               THEN << disc("light") >>
          ELSE IF phaseName \in moonPhases
               THEN << [src |-> "moon", op |-> "path", path |-> phaseName,
                        fill |-> "light",
                        tx |-> x - radius, ty |-> y - radius,
                        scaleNum |-> radius, scaleDen |-> 50 * LenUnit] >>
          ELSE << >> )

\* generate_pdf.js:21-48: the fills painted between save() and restore()
drawMoonIcon(x, y, p, radius) ==
    LET phaseName == PhaseKey(getMoonPhaseName(p))
        disc(c) == [src |-> "moon", op |-> "circle", x |-> x, y |-> y,
                    r |-> radius, fill |-> c]
    IN  << disc("dark") >> \o
        ( IF phaseName = "new_moon" THEN << >>
          ELSE IF phaseName = "full_moon" THEN << disc("light") >>
          ELSE IF phaseName \in moonPhases
               THEN << [src |-> "moon", op |-> "path", path |-> phaseName,
                        fill |-> "light",
                        tx |-> x - radius, ty |-> y - radius,
                        scaleNum |-> radius, scaleDen |-> 50 * LenUnit] >>
          ELSE << >> )

-----------------------------------------------------------------------------
(* Page geometry and catalogs *)

\* generate_pdf.js:137
graphStations == { "Port Townsend", "Seattle" }

\* generate_pdf.js:139-142
pageWidth == 288 * LenUnit
pageHeight == 576 * LenUnit
margin == 10 * LenUnit
dividerX == (pageWidth * 45) \div 100

\* generate_pdf.js:144-148
sizes ==
    [ headerLg |-> 11 * LenUnit, headerSm |-> 6 * LenUnit, title |-> 8 * LenUnit,
      stationName |-> 7 * LenUnit, data |-> 6 * LenUnit,
      lineSpacing |-> LenUnit \div 2, stationSpacing |-> 2 * LenUnit,
      graphHeight |-> 30 * LenUnit, graphBottomMargin |-> 2 * LenUnit,
      tideLineHeight |-> 7 * LenUnit, moonIconRadius |-> 7 * LenUnit ]

\* generate_pdf.js:192 and 201: the offset both columns start from
currentY == (margin + 25 * LenUnit) + sizes.title + 5 * LenUnit

\* fetch_data.js:4-23, in Object.entries order
tideStations ==
    << [name |-> "Port Townsend", id |-> "9444900"],
       [name |-> "Blaine, Drayton Harbor", id |-> "9449679"],
       [name |-> "Bellingham", id |-> "9449211"],
       [name |-> "Rosario", id |-> "9449771"],
       [name |-> "Friday Harbor", id |-> "9449880"],
       [name |-> "Anacortes", id |-> "9448794"],
       [name |-> "Sequim Bay", id |-> "9444555"],
       [name |-> "Port Angeles", id |-> "9444090"],
       [name |-> "Neah Bay", id |-> "9443090"],
       [name |-> "Seattle", id |-> "9447130"],
       [name |-> "LaConner", id |-> "9448558"],
       [name |-> "Kayak Point", id |-> "9448094"],
       [name |-> "Everett", id |-> "9447659"],
       [name |-> "Port Ludlow", id |-> "9445017"],
       [name |-> "Pleasant Harbor", id |-> "9445293"],
       [name |-> "Bremerton", id |-> "9445958"],
       [name |-> "Tacoma, Sequin Waterway", id |-> "9446484"],
       [name |-> "Olympia", id |-> "9446807"] >>

\* fetch_data.js:25-33, in Object.entries order
currentStations ==
    << [name |-> "Lawrence Point", id |-> "PUG1708"],
       [name |-> "San Juan Channel", id |-> "PUG1703"],
       [name |-> "Rosario Strait", id |-> "PUG1702"],
       [name |-> "Deception Pass", id |-> "PUG1701"],
       [name |-> "Point Wilson", id |-> "PUG1623"],
       [name |-> "The Narrows", id |-> "PUG1524"],
       [name |-> "Dana Passage", id |-> "PUG1539"] >>

Names(catalog) == [i \in 1..Len(catalog) |-> catalog[i].name]
NameSet(catalog) == { catalog[i].name : i \in 1..Len(catalog) }
IdSet(catalog) == { catalog[i].id : i \in 1..Len(catalog) }

-----------------------------------------------------------------------------
(* JavaScript numbers that may be NaN or infinite: a finite number is the  *)
(* fraction n/d in lowest terms with d > 0                                 *)

Sign(n) == IF n > 0 THEN 1 ELSE IF n < 0 THEN -1 ELSE 0
Abs(n) == IF n < 0 THEN -n ELSE n

RECURSIVE Gcd(_, _)
Gcd(a, b) == IF b = 0 THEN a ELSE Gcd(b, a % b)

Fin(n, d) ==
    LET g == Gcd(Abs(n), d)
    IN  [k |-> "fin", n |-> n \div g, d |-> d \div g]
NaN == [k |-> "NaN"]
Infinity(s) == [k |-> "inf", s |-> s]

\* a - b
JsMinus(a, b) ==
    CASE a.k = "NaN" \/ b.k = "NaN" -> NaN
      [] a.k = "inf" /\ b.k = "inf" -> IF a.s = b.s THEN NaN ELSE a
      [] a.k = "inf" -> a
      [] b.k = "inf" -> Infinity(-b.s)
      [] OTHER -> Fin(a.n * b.d - b.n * a.d, a.d * b.d)

\* a + b
JsPlus(a, b) ==
    CASE b.k = "NaN" -> NaN
      [] b.k = "inf" -> JsMinus(a, Infinity(-b.s))
      [] OTHER -> JsMinus(a, Fin(-b.n, b.d))

\* a * b
JsTimes(a, b) ==
    CASE a.k = "NaN" \/ b.k = "NaN" -> NaN
      [] a.k = "inf" /\ b.k = "inf" -> Infinity(a.s * b.s)
      [] a.k = "inf" -> IF b.n = 0 THEN NaN ELSE Infinity(a.s * Sign(b.n))
      [] b.k = "inf" -> IF a.n = 0 THEN NaN ELSE Infinity(b.s * Sign(a.n))
      [] OTHER -> Fin(a.n * b.n, a.d * b.d)

\* a / b: 0/0 is NaN and x/0 is an infinity
JsDivide(a, b) ==
    CASE a.k = "NaN" \/ b.k = "NaN" -> NaN
      [] a.k = "inf" /\ b.k = "inf" -> NaN
      [] a.k = "inf" -> Infinity(a.s * (IF b.n < 0 THEN -1 ELSE 1))
      [] b.k = "inf" -> Fin(0, 1)
      [] b.n = 0 -> IF a.n = 0 THEN NaN ELSE Infinity(Sign(a.n))
      [] OTHER -> Fin(a.n * b.d * Sign(b.n), a.d * Abs(b.n))

\* a > b (false when either is NaN)
JsGreater(a, b) ==
    CASE a.k = "NaN" \/ b.k = "NaN" -> FALSE
      [] a.k = "inf" /\ b.k = "inf" -> a.s > b.s
      [] a.k = "inf" -> a.s > 0
      [] b.k = "inf" -> b.s < 0
      [] OTHER -> a.n * b.d > b.n * a.d

\* a >= b (false when either is NaN)
JsGeq(a, b) ==
    CASE a.k = "NaN" \/ b.k = "NaN" -> FALSE
      [] a.k = "inf" /\ b.k = "inf" -> a.s >= b.s
      [] a.k = "inf" -> a.s > 0
      [] b.k = "inf" -> b.s < 0
      [] OTHER -> a.n * b.d >= b.n * a.d

\* Number.prototype.toFixed(1) of a number given in hundredths (ties away from 0)
toFixed1(v) ==
    LET tenths == (Abs(v) + 5) \div 10
    IN  (IF v < 0 THEN << "-" >> ELSE << >>)
            \o NumToString(tenths \div 10) \o << "." >> \o NumToString(tenths % 10)

\* Number.prototype.toFixed(2) of a number given in hundredths
toFixed2(v) ==
    (IF v < 0 THEN << "-" >> ELSE << >>)
        \o NumToString(Abs(v) \div 100) \o << "." >>
        \o padStart(NumToString(Abs(v) % 100), 2, "0")

-----------------------------------------------------------------------------
(* The provider's answers: the inputs of a run                             *)

\* time of the k-th event of a day, spread over the day
EventHour(k) == ((k - 1) * 24) \div (MaxPerDay + 2)
EventMinute(k) == (7 * k) % 60

\* a well-formed provider timestamp "YYYY-MM-DD HH:MM"
Stamp(date, hh, mm) ==
    dayString(date) \o << " " >> \o padStart(NumToString(hh), 2, "0")
        \o << ":" >> \o padStart(NumToString(mm), 2, "0")

\* a hi-lo tide prediction {t, v, type}; v is the height in hundredths of a foot
TideEvent(date, k, flat) ==
    [ t |-> JsString(Stamp(date, EventHour(k), EventMinute(k))),
      v |-> IF flat THEN 350 ELSE IF k % 2 = 1 THEN 900 + 13 * k ELSE 100 - 35 * k,
      type |-> IF k % 2 = 1 THEN "H" ELSE "L" ]

\* a current prediction {Time, Type, Velocity_Major}; velocity in hundredths of a knot
CurrentEvent(date, k) ==
    LET kind == << "slack", "flood", "slack", "ebb" >>[((k - 1) % 4) + 1]
    IN  [ Time |-> JsString(Stamp(date, EventHour(k), EventMinute(k))),
          Type |-> kind,
          Velocity_Major |-> CASE kind = "flood" -> 164 + 10 * k
                               [] kind = "ebb" -> 0 - (231 + k)
                               [] OTHER -> 3 - k ]

\* an hourly-interval sample {t, v}
HourlySample(date, hh) ==
    [ t |-> JsString(Stamp(date, hh, 0)), v |-> 400 + 20 * hh - hh * hh ]

SampledHours == << 0, 8, 16 >>

\* events per day of the station at catalog position i on the j-th day of the range
CountOn(i, j, rot) == (i + j + rot) % (MaxPerDay + 1)

\* whether the station's heights are all equal
IsFlat(i, rot) == (i + rot) % 2 = 0

RECURSIVE TideSeries(_, _, _, _)
\* chronological hi-lo series of station i over days[j..]
TideSeries(i, rot, days, j) ==
    IF j > Len(days) THEN << >>
    ELSE [k \in 1..CountOn(i, j, rot) |-> TideEvent(days[j], k, IsFlat(i, rot))]
            \o TideSeries(i, rot, days, j + 1)

RECURSIVE CurrentSeries(_, _, _, _)
\* chronological max/slack series of station i over days[j..]
CurrentSeries(i, rot, days, j) ==
    IF j > Len(days) THEN << >>
    ELSE [k \in 1..CountOn(i, j, rot) |-> CurrentEvent(days[j], k)]
            \o CurrentSeries(i, rot, days, j + 1)

RECURSIVE HourlySeries(_, _)
HourlySeries(days, j) ==
    IF j > Len(days) THEN << >>
    ELSE [h \in 1..Len(SampledHours) |-> HourlySample(days[j], SampledHours[h])]
            \o HourlySeries(days, j + 1)

\* ways one station's answer can be out of the ordinary
BadKinds ==
    { "fetchError",     \* the request fails (axios throws)
      "noPredictions",  \* the provider answers {error: {message}}
      "missingTime",    \* an event without a timestamp field
      "numberTime",     \* an event whose timestamp is a number
      "noClock",        \* an event whose timestamp is a date without a time
      "threeParts",     \* an event whose timestamp has a third part
      "outOfRange",     \* an event dated after the requested range
      "oddKind" }       \* a well-stamped event of a kind the book has no word for

\* the stations whose answer may be out of the ordinary: one of each catalog
BadStations == { currentStations[2].id, tideStations[2].id }

BadCases ==
    { [kind |-> "none", id |-> "none"] }
        \cup { [kind |-> k, id |-> s] : k \in BadKinds, s \in BadStations }

\* the timestamp, if any, of the odd event of a bad case
BadStampFields(kind, days, f) ==
    CASE kind = "missingTime" -> << >>
      [] kind = "numberTime" ->
            << f :> JsNumber(days[1].y * 10000 + days[1].m * 100 + days[1].d) >>
      [] kind = "noClock" -> << f :> JsString(dayString(days[1])) >>
      [] kind = "threeParts" ->
            << f :> JsString(Stamp(days[1], 6, 49) \o << " ", "P", "M" >>) >>
      [] kind = "outOfRange" ->
            << f :> JsString(Stamp(NextDay(days[Len(days)]), 6, 49)) >>
      [] kind = "oddKind" -> << f :> JsString(Stamp(days[1], 6, 49)) >>

\* the other fields of the odd event: those given, with an unknown kind for
\* the bad case "oddKind"
OddFields(kind, fields) ==
    IF kind # "oddKind" THEN fields
    ELSE IF "Type" \in DOMAIN fields THEN [fields EXCEPT !.Type = "eddy"]
    ELSE [fields EXCEPT !.type = "X"]

\* an event record made of the given fields and, when present, the timestamp
WithStamp(fields, stamp) == IF stamp = << >> THEN fields ELSE fields @@ stamp[1]

\* the series with the bad case's odd event added (in chronological position)
Spoil(series, kind, days, f, fields) ==
    LET odd == WithStamp(OddFields(kind, fields), BadStampFields(kind, days, f))
    IN  IF kind = "outOfRange" THEN Append(series, odd) ELSE << odd >> \o series

Response(series, bad, id, days, f, fields, wrap(_)) ==
    IF bad.id # id THEN [ok |-> TRUE, data |-> wrap(series)]
    ELSE CASE bad.kind = "fetchError" -> [ok |-> FALSE]
           [] bad.kind = "noPredictions" ->
                [ok |-> TRUE, data |-> [error |-> [message |-> "No Predictions data was found."]]]
           [] OTHER -> [ok |-> TRUE, data |-> wrap(Spoil(series, bad.kind, days, f, fields))]

WrapPredictions(series) == [predictions |-> series]
WrapCp(series) == [current_predictions |-> [cp |-> series]]

\* what the provider answers to each request of a run over `days`
World(rot, bad, days) ==
    [ currents |->
        [ id \in IdSet(currentStations) |->
            LET i == CHOOSE n \in 1..Len(currentStations) : currentStations[n].id = id
            IN  Response(CurrentSeries(i, rot, days, 1), bad, id, days, "Time",
                         [Type |-> "flood", Velocity_Major |-> 120], WrapCp) ],
      tides |->
        [ id \in IdSet(tideStations) |->
            LET i == CHOOSE n \in 1..Len(tideStations) : tideStations[n].id = id
            IN  Response(TideSeries(i, rot, days, 1), bad, id, days, "t",
                         [v |-> 500, type |-> "H"], WrapPredictions) ],
      hourly |->
        [ id \in { tideStations[n].id :
                     n \in { m \in 1..Len(tideStations) : tideStations[m].name \in graphStations } } |->
            [ok |-> TRUE, data |-> WrapPredictions(HourlySeries(days, 1))] ] ]

\* fetch_data.js:55-78
fetchTideData(stationId, begin, end) ==
    LET response == noaa.tides[stationId]
    IN  IF response.ok THEN response.data ELSE [predictions |-> << >>]

\* fetch_data.js:87-110
fetchHourlyTideData(stationId, begin, end) ==
    LET response == noaa.hourly[stationId]
    IN  IF response.ok THEN response.data ELSE [predictions |-> << >>]

\* fetch_data.js:119-141
fetchCurrentData(stationId, begin, end) ==
    LET response == noaa.currents[stationId]
    IN  IF response.ok THEN response.data
        ELSE [current_predictions |-> [cp |-> << >>]]

-----------------------------------------------------------------------------
(* Day bucketing *)

DayMatches_MonthOnly(t, dayStr) == startsWith(t, SubSeq(dayStr, 1, 7))

\* generate_pdf.js:210 and 233: p.Time.startsWith(dayString) on a string
DayMatches(t, dayStr) == startsWith(t, dayStr)

\* generate_pdf.js:210 and 233: the filter callback throws a TypeError when the
\* timestamp is undefined (no property to read) or is not a string (no
\* startsWith method); filter visits every element, so one such event is enough
FilterThrows(events, f) ==
    \E i \in 1..Len(events) : Get(events[i], f).type # "string"

\* positions of the events the filter keeps
DayIndices(events, f, dayStr) ==
    { i \in 1..Len(events) : DayMatches(Get(events[i], f).s, dayStr) }

\* generate_pdf.js:210 and 233: events.filter(p => p[f].startsWith(dayString))
FilterDay(events, f, dayStr) ==
    SelectSeq(events, LAMBDA p : DayMatches(Get(p, f).s, dayStr))

\* generate_pdf.js:210: allCurrentData[name]?.current_predictions?.cp || []
CpOf(data) ==
    IF "current_predictions" \in DOMAIN data
          /\ "cp" \in DOMAIN data.current_predictions
    THEN data.current_predictions.cp ELSE << >>

\* generate_pdf.js:233: allTideData[name]?.predictions || []
PredictionsOf(data) ==
    IF "predictions" \in DOMAIN data THEN data.predictions ELSE << >>

-----------------------------------------------------------------------------
(* Tide graph *)

DigitValue(c) == CHOOSE n \in 0..9 : Digits[n + 1] = c
IsDigit(c) == \E n \in 0..9 : Digits[n + 1] = c

RECURSIVE ParseInt(_)
ParseInt(s) ==
    IF s = << >> THEN 0
    ELSE 10 * ParseInt(SubSeq(s, 1, Len(s) - 1)) + DigitValue(s[Len(s)])

AllDigits(s) == \A i \in 1..Len(s) : IsDigit(s[i])

RECURSIVE DaysBeforeMonth(_, _)
DaysBeforeMonth(y, m) ==
    IF m = 1 THEN 0 ELSE DaysBeforeMonth(y, m - 1) + DaysInMonth(y, m - 1)

LeapDaysThrough(y) == (y \div 4) - (y \div 100) + (y \div 400)

\* days from 1970-01-01 to the date
EpochDay(y, m, d) ==
    (y - 1970) * 365 + (LeapDaysThrough(y - 1) - LeapDaysThrough(1969))
        + DaysBeforeMonth(y, m) + (d - 1)

\* generate_pdf.js:57: new Date(p.t).getTime(), in minutes, for a timestamp of the
\* shape "YYYY-MM-DD HH:MM" read as local time; any other shape is taken to
\* be an invalid date (NaN)
DateGetTime(t) ==
    IF /\ t.type = "string"
       /\ Len(t.s) = 16
       /\ t.s[5] = "-" /\ t.s[8] = "-" /\ t.s[11] = " " /\ t.s[14] = ":"
       /\ AllDigits(SubSeq(t.s, 1, 4)) /\ AllDigits(SubSeq(t.s, 6, 7))
       /\ AllDigits(SubSeq(t.s, 9, 10)) /\ AllDigits(SubSeq(t.s, 12, 13))
       /\ AllDigits(SubSeq(t.s, 15, 16))
    THEN Fin(EpochDay(ParseInt(SubSeq(t.s, 1, 4)), ParseInt(SubSeq(t.s, 6, 7)),
                      ParseInt(SubSeq(t.s, 9, 10))) * 1440
                + ParseInt(SubSeq(t.s, 12, 13)) * 60 + ParseInt(SubSeq(t.s, 15, 16)), 1)
    ELSE NaN

\* Math.min(...values) / Math.max(...values)
MathMin(values) ==
    IF \E i \in 1..Len(values) : values[i].k = "NaN" THEN NaN
    ELSE values[CHOOSE i \in 1..Len(values) :
                    \A j \in 1..Len(values) : JsGeq(values[j], values[i])]
MathMax(values) ==
    IF \E i \in 1..Len(values) : values[i].k = "NaN" THEN NaN
    ELSE values[CHOOSE i \in 1..Len(values) :
                    \A j \in 1..Len(values) : JsGeq(values[i], values[j])]

RECURSIVE JsSum(_, _)
\* values.reduce((a, b) => a + b, 0)
JsSum(values, i) ==
    IF i = 0 THEN Fin(0, 1) ELSE JsPlus(JsSum(values, i - 1), values[i])

\* generate_pdf.js:56-59
GraphPoints(hiloData) ==
    [ i \in 1..Len(hiloData) |->
        [ time |-> DateGetTime(Get(hiloData[i], "t")),
          value |-> Fin(hiloData[i].v, 100),
          raw |-> hiloData[i].v ] ]

\* generate_pdf.js:70
timeToX(time, minTime, timeRange, width) ==
    JsTimes(JsDivide(JsMinus(time, minTime), timeRange), Fin(width, 1))

\* generate_pdf.js:71
valueToY(value, minValue, valueRange, height) ==
    JsMinus(JsMinus(Fin(height, 1),
                    JsTimes(JsDivide(JsMinus(value, minValue), valueRange),
                            Fin(height * 8, 10))),
            Fin(height, 10))

\* one canvas call of the graph, in the graph's translated coordinates
GraphOp(op, what, px, py, text) ==
    [src |-> "graph", op |-> op, what |-> what, x |-> px, y |-> py, text |-> text]

\* generate_pdf.js:61-68 and 101: the ranges and the mean of the points
GraphScale(points) ==
    LET n == Len(points)
        values == [i \in 1..n |-> points[i].value]
        lo == MathMin(values)
    IN  [ minTime |-> points[1].time,
          maxTime |-> points[n].time,
          timeRange |-> JsMinus(points[n].time, points[1].time),
          minValue |-> lo,
          valueRange |-> JsMinus(MathMax(values), lo),
          avgValue |-> JsDivide(JsSum(values, n), Fin(n, 1)) ]

GraphX(time, sc, width) == timeToX(time, sc.minTime, sc.timeRange, width)
GraphY(value, sc, height) == valueToY(value, sc.minValue, sc.valueRange, height)

\* generate_pdf.js:74-78
GraphGrid(height) ==
    [i \in 1..5 |-> GraphOp("line", "grid", Fin(0, 1), Fin(height * (i - 1), 4), << >>)]

\* generate_pdf.js:84-98
GraphCurve(points, sc, width, height) ==
    << GraphOp("moveTo", "curve", GraphX(points[1].time, sc, width),
               GraphY(points[1].value, sc, height), << >>) >>
    \o [i \in 1..(Len(points) - 1) |->
          GraphOp("bezierCurveTo", "curve", GraphX(points[i + 1].time, sc, width),
                  GraphY(points[i + 1].value, sc, height), << >>)]

\* generate_pdf.js:102-112: the dot and the value label of every point
GraphMarks(points, sc, width, height) ==
    [j \in 1..(2 * Len(points)) |->
        LET p == points[(j + 1) \div 2]
            px == GraphX(p.time, sc, width)
            py == GraphY(p.value, sc, height)
        IN  IF j % 2 = 1
            THEN GraphOp("circle", "marker", px, py, << >>)
            ELSE GraphOp("text", "label", JsMinus(px, Fin(10 * LenUnit, 1)),
                         IF JsGreater(p.value, sc.avgValue)
                         THEN JsPlus(py, Fin(4 * LenUnit, 1))
                         ELSE JsMinus(py, Fin(10 * LenUnit, 1)),
                         toFixed2(p.raw))]

\* generate_pdf.js:115-129: the 06:00, 12:00 and 18:00 lines and labels in range
GraphAxis(sc, width, height) ==
    LET hours == << 6, 12, 18 >>
        dayStart == IF sc.minTime.k = "fin"
                    THEN Fin((sc.minTime.n \div 1440) * 1440, 1) ELSE NaN
        shown == SelectSeq(hours,
                     LAMBDA h : /\ JsGeq(JsPlus(dayStart, Fin(h * 60, 1)), sc.minTime)
                                /\ JsGeq(sc.maxTime, JsPlus(dayStart, Fin(h * 60, 1))))
    IN  [j \in 1..(2 * Len(shown)) |->
            LET h == shown[(j + 1) \div 2]
                labelX == GraphX(JsPlus(dayStart, Fin(h * 60, 1)), sc, width)
            IN  IF j % 2 = 1
                THEN GraphOp("line", "hour", labelX, Fin(0, 1), << >>)
                ELSE GraphOp("text", "hourLabel", JsMinus(labelX, Fin(15 * LenUnit, 1)),
                             Fin(height + 2 * LenUnit, 1),
                             padStart(NumToString(h), 2, "0") \o << ":", "0", "0" >>)]

\* generate_pdf.js:53-131: the canvas calls of a graph of at least two points
GraphOps(points, sc, x, y, width, height) ==
    << GraphOp("translate", "origin", Fin(x, 1), Fin(y, 1), << >>) >>
        \o GraphGrid(height)
        \o << GraphOp("line", "zero", Fin(0, 1), GraphY(Fin(0, 1), sc, height), << >>) >>
        \o GraphCurve(points, sc, width, height)
        \o GraphMarks(points, sc, width, height)
        \o GraphAxis(sc, width, height)

\* generate_pdf.js:50-132: the canvas calls of one graph, in order
drawTideGraph(hiloData, x, y, width, height) ==
    IF Len(hiloData) < 2 THEN << >>
    ELSE GraphOps(GraphPoints(hiloData), GraphScale(GraphPoints(hiloData)),
                  x, y, width, height)

-----------------------------------------------------------------------------
(* Station blocks *)

Text(src, text, y, font, size) ==
    [src |-> src, op |-> "text", text |-> text, y |-> y, font |-> font, size |-> size]

Placeholder == << "Data not available." >>

EventTypeOf_EchoFallback(p) ==
    IF p.Type = "ebb" THEN << "max ebb" >>
    ELSE IF p.Type = "flood" THEN << "max flood" >>
    ELSE IF p.Type = "slack" THEN << "slack" >> ELSE << p.Type >>

\* generate_pdf.js:213
EventTypeOf(p) ==
    IF p.Type = "ebb" THEN << "max ebb" >>
    ELSE IF p.Type = "flood" THEN << "max flood" >> ELSE << "slack" >>

\* generate_pdf.js:214-215
SpeedOf(p) ==
    IF EventTypeOf(p) = << "slack" >> THEN << >> ELSE toFixed1(p.Velocity_Major)

CurrentTextAdvance_SpacedPlaceholder(n) ==
    IF n > 0 THEN n * (sizes.data + sizes.lineSpacing)
    ELSE sizes.data + sizes.lineSpacing

\* generate_pdf.js:211-227: what the rows or the placeholder add to currentsY
CurrentTextAdvance(n) ==
    IF n > 0 THEN n * (sizes.data + sizes.lineSpacing) ELSE sizes.data

\* generate_pdf.js:207-229: one iteration of the current-station loop
CurrentBlock(name, data, dayStr, y0) ==
    LET heading == Text("current", << name >>, y0, "Helvetica-Bold", sizes.stationName)
        cp == CpOf(data)
        threw == FilterThrows(cp, "Time")
        currentsForDay == IF threw THEN << >> ELSE FilterDay(cp, "Time", dayStr)
        n == Len(currentsForDay)
        y1 == y0 + sizes.stationName
        rows == [j \in 1..(3 * n) |->
                    LET p == currentsForDay[((j - 1) \div 3) + 1]
                        rowY == y1 + ((j - 1) \div 3) * (sizes.data + sizes.lineSpacing)
                    IN  Text("current",
                             CASE j % 3 = 1 -> SpeedOf(p)
                               [] j % 3 = 2 -> EventTypeOf(p)
                               [] OTHER -> formatTime(Get(p, "Time")),
                             rowY, "Helvetica", sizes.data)]
        body == IF n > 0 THEN rows
                ELSE << Text("current", Placeholder, y1, "Helvetica-Oblique", sizes.data) >>
    IN  [ threw |-> threw,
          ops |-> IF threw THEN << heading >> ELSE << heading >> \o body,
          bucket |-> currentsForDay,
          y |-> y1 + CurrentTextAdvance(n) + sizes.stationSpacing ]

\* generate_pdf.js:235: whether the caller draws a graph and makes room for it
GraphWanted(name, n) == name \in graphStations /\ n > 0

\* generate_pdf.js:237
GraphAdvance == sizes.graphHeight + sizes.graphBottomMargin + 8 * LenUnit

TideTextAdvance_PerEvent(n) ==
    IF n > 0 THEN sizes.tideLineHeight * n ELSE sizes.data

\* generate_pdf.js:243-263: what the two text lines or the placeholder add to tidesY
TideTextAdvance(n) ==
    IF n > 0 THEN sizes.tideLineHeight * 2 ELSE sizes.data

\* generate_pdf.js:232-265: one iteration of the tide-station loop
TideBlock(name, data, dayStr, y0) ==
    LET predictions == PredictionsOf(data)
        threw == FilterThrows(predictions, "t")
        tidesForDay == IF threw THEN << >> ELSE FilterDay(predictions, "t", dayStr)
        n == Len(tidesForDay)
        wanted == GraphWanted(name, n)
        graph == IF wanted
                 THEN drawTideGraph(tidesForDay, dividerX + margin, y0,
                                    pageWidth - dividerX - margin * 2, sizes.graphHeight)
                 ELSE << >>
        y1 == IF wanted THEN y0 + GraphAdvance ELSE y0
        heading == Text("tide", << name >>, y1, "Helvetica-Bold", sizes.stationName)
        y2 == y1 + sizes.stationName
        cells == [j \in 1..(2 * n) |->
                    LET p == tidesForDay[(j + 1) \div 2]
                    IN  IF j % 2 = 1
                        THEN Text("tide",
                                  toFixed2(p.v) \o << " " >>
                                      \o << IF p.type = "H" THEN "high" ELSE "low" >>,
                                  y2, "Helvetica", sizes.data)
                        ELSE Text("tide", formatTime(Get(p, "t")),
                                  y2 + sizes.tideLineHeight, "Helvetica", sizes.data)]
        body == IF n > 0 THEN cells
                ELSE << Text("tide", Placeholder, y2, "Helvetica-Oblique", sizes.data) >>
    IN  [ threw |-> threw,
          ops |-> IF threw THEN << >> ELSE graph \o << heading >> \o body,
          bucket |-> tidesForDay,
          graphCalled |-> wanted,
          graphOps |-> graph,
          y |-> y2 + TideTextAdvance(n) + sizes.stationSpacing ]

-----------------------------------------------------------------------------
(* generatePdf *)

\* the start dates tried: the program's January 1 (line 151) and a month's last day
StartDates == { NewDate(year, 0, 1), NewDate(year, 0, 31) }

\* moon illuminations the astronomy library may report for a page
PhaseInputs == { 0, (PhaseUnit * 9) \div 16 }

\* generate_pdf.js:136-169 before the first fetch. Line 152 makes the end date
\* the start date (testMode) or the year's last day; the loop of line 172 is
\* run here for every range of 1..MaxDays days from a start date
Init ==
    /\ pc = "fetchCurrent"
    /\ startDate \in StartDates
    /\ \E k \in 0..(MaxDays - 1) : endDate = PlusDays(startDate, k)
    /\ \E rot \in 0..MaxPerDay, bad \in BadCases :
            noaa = World(rot, bad, DaysBetween(startDate, endDate))
    /\ day = startDate
    /\ allCurrentData = << >>
    /\ allTideData = << >>
    /\ allHourlyTideData = << >>
    /\ idx = 1
    /\ book = << >>
    /\ page = << >>
    /\ blocks = << >>
    /\ currentsY = 0
    /\ tidesY = 0
    /\ phase = 0
    /\ moonPhaseName = ""

\* generate_pdf.js:159-161: one iteration of the current-station fetch loop
FetchCurrent ==
    /\ pc = "fetchCurrent"
    /\ LET s == currentStations[idx]
       IN  allCurrentData' =
               allCurrentData @@ (s.name :> fetchCurrentData(s.id, startDate, endDate))
    /\ IF idx < Len(currentStations)
       THEN idx' = idx + 1 /\ pc' = pc
       ELSE idx' = 1 /\ pc' = "fetchTide"
    /\ UNCHANGED << startDate, endDate, day, noaa, allTideData, allHourlyTideData,
                    book, page, blocks, currentsY, tidesY, phase, moonPhaseName >>

\* generate_pdf.js:164-169: one iteration of the tide-station fetch loop
FetchTide ==
    /\ pc = "fetchTide"
    /\ LET s == tideStations[idx]
       IN  /\ allTideData' =
                 allTideData @@ (s.name :> fetchTideData(s.id, startDate, endDate))
           /\ allHourlyTideData' =
                 IF s.name \in graphStations
                 THEN allHourlyTideData
                        @@ (s.name :> fetchHourlyTideData(s.id, startDate, endDate))
                 ELSE allHourlyTideData
    /\ IF idx < Len(tideStations)
       THEN idx' = idx + 1 /\ pc' = pc
       ELSE idx' = 1 /\ pc' = "loop"
    /\ UNCHANGED << startDate, endDate, day, noaa, allCurrentData,
                    book, page, blocks, currentsY, tidesY, phase, moonPhaseName >>

NeedsAddPage_FromFirstDay(d, start) == DateLeq(start, d)

\* generate_pdf.js:174: if (day > startDate) doc.addPage()
NeedsAddPage(d, start) == DateLess(start, d)

\* generate_pdf.js:172-174: the loop test holds; a later day opens its page
StartDay ==
    /\ pc = "loop"
    /\ DateLeq(day, endDate)
    /\ IF NeedsAddPage(day, startDate)
       THEN book' = Append(book, [ev |-> "addPage"]) /\ page' = << >>
       ELSE UNCHANGED << book, page >>
    /\ blocks' = << >>
    /\ pc' = "header"
    /\ UNCHANGED << startDate, endDate, day, noaa, allCurrentData, allTideData,
                    allHourlyTideData, idx, currentsY, tidesY, phase, moonPhaseName >>

\* generate_pdf.js:172 and 267: the loop test fails; doc.end()
EndDocument ==
    /\ pc = "loop"
    /\ ~DateLeq(day, endDate)
    /\ book' = Append(book, [ev |-> "end"])
    /\ pc' = "done"
    /\ UNCHANGED << startDate, endDate, day, noaa, allCurrentData, allTideData,
                    allHourlyTideData, idx, page, blocks, currentsY, tidesY,
                    phase, moonPhaseName >>

\* generate_pdf.js:182-202: the header, titles, underlines and divider of a page;
\* weekday, month and sun times come formatted from the platform and the
\* astronomy library and are kept as labelled fragments
HeaderOps(date, p) ==
    << Text("header", << "WEEKDAY " >> \o dayString(date), margin,
            "Helvetica-Bold", sizes.headerLg),
       Text("header", << "MONTH DAY " >> \o dayString(date), margin + sizes.headerLg,
            "Helvetica-Bold", sizes.headerLg) >>
    \o drawMoonIcon(pageWidth \div 2, margin + sizes.moonIconRadius, p,
                    sizes.moonIconRadius)
    \o << Text("header", << getMoonPhaseName(p) >>,
               margin + sizes.moonIconRadius * 2 + 2 * LenUnit, "Helvetica", sizes.headerSm),
          Text("header", << "SUNRISE " >> \o dayString(date), margin + 3 * LenUnit,
               "Helvetica", sizes.headerSm),
          Text("header", << "SUNSET " >> \o dayString(date), margin + 10 * LenUnit,
               "Helvetica", sizes.headerSm),
          Text("header", << "CURRENT PREDICTIONS" >>, margin + 25 * LenUnit,
               "Helvetica-Bold", sizes.title),
          Text("header", << "HIGH AND LOW TIDES" >>, margin + 25 * LenUnit,
               "Helvetica-Bold", sizes.title),
          [src |-> "header", op |-> "line", what |-> "underline",
           y |-> margin + 25 * LenUnit + sizes.title + 1 * LenUnit],
          [src |-> "header", op |-> "line", what |-> "underline",
           y |-> margin + 25 * LenUnit + sizes.title + 1 * LenUnit],
          [src |-> "header", op |-> "line", what |-> "divider", y |-> currentY - 2 * LenUnit] >>

\* generate_pdf.js:173-206: the first drawing of a day
Header ==
    /\ pc = "header"
    /\ \E p \in PhaseInputs :
          /\ phase' = p
          /\ moonPhaseName' = getMoonPhaseName(p)
          /\ page' = page \o HeaderOps(day, p)
    /\ book' = Append(book, [ev |-> "render", day |-> day])
    /\ currentsY' = currentY
    /\ idx' = 1
    /\ pc' = "currents"
    /\ UNCHANGED << startDate, endDate, day, noaa, allCurrentData, allTideData,
                    allHourlyTideData, blocks, tidesY >>

\* generate_pdf.js:207-231: one current station; after the last one tidesY is set
CurrentStation ==
    /\ pc = "currents"
    /\ LET s == currentStations[idx]
           b == CurrentBlock(s.name, allCurrentData[s.name], dayString(day), currentsY)
       IN  /\ page' = page \o b.ops
           /\ IF b.threw
              THEN /\ pc' = "crashed"
                   /\ UNCHANGED << blocks, currentsY, tidesY, idx >>
              ELSE /\ blocks' = Append(blocks,
                          [col |-> "current", name |-> s.name, bucket |-> b.bucket,
                           graphCalled |-> FALSE, graphOps |-> << >>,
                           y0 |-> currentsY, y1 |-> b.y])
                   /\ currentsY' = b.y
                   /\ IF idx < Len(currentStations)
                      THEN idx' = idx + 1 /\ pc' = pc /\ tidesY' = tidesY
                      ELSE idx' = 1 /\ pc' = "tides" /\ tidesY' = currentY
    /\ UNCHANGED << startDate, endDate, day, noaa, allCurrentData, allTideData,
                    allHourlyTideData, book, phase, moonPhaseName >>

\* generate_pdf.js:232-265 and 172: one tide station; after the last one the day advances
TideStation ==
    /\ pc = "tides"
    /\ LET s == tideStations[idx]
           b == TideBlock(s.name, allTideData[s.name], dayString(day), tidesY)
       IN  /\ page' = page \o b.ops
           /\ IF b.threw
              THEN /\ pc' = "crashed"
                   /\ UNCHANGED << blocks, tidesY, idx, day >>
              ELSE /\ blocks' = Append(blocks,
                          [col |-> "tide", name |-> s.name, bucket |-> b.bucket,
                           graphCalled |-> b.graphCalled, graphOps |-> b.graphOps,
                           y0 |-> tidesY, y1 |-> b.y])
                   /\ tidesY' = b.y
                   /\ IF idx < Len(tideStations)
                      THEN idx' = idx + 1 /\ pc' = pc /\ day' = day
                      ELSE idx' = 1 /\ pc' = "loop" /\ day' = NextDay(day)
    /\ UNCHANGED << startDate, endDate, noaa, allCurrentData, allHourlyTideData,
                    allTideData, book, currentsY, phase, moonPhaseName >>

Next ==
    \/ FetchCurrent
    \/ FetchTide
    \/ StartDay
    \/ EndDocument
    \/ Header
    \/ CurrentStation
    \/ TideStation

Spec == Init /\ [][Next]_vars

-----------------------------------------------------------------------------
(* The classifier and the icon on their own, over the whole illumination   *)
(* grid                                                                    *)

InitMoon ==
    /\ pc = "moon"
    /\ phase \in 0..(PhaseUnit - 1)
    /\ startDate = NewDate(year, 0, 1)
    /\ endDate = startDate
    /\ day = startDate
    /\ noaa = << >>
    /\ allCurrentData = << >>
    /\ allTideData = << >>
    /\ allHourlyTideData = << >>
    /\ idx = 1
    /\ book = << >>
    /\ page = << >>
    /\ blocks = << >>
    /\ currentsY = 0
    /\ tidesY = 0
    /\ moonPhaseName = ""

\* generate_pdf.js:180 and 185: classify the illumination and draw its icon
MoonHeader ==
    /\ pc = "moon"
    /\ moonPhaseName' = getMoonPhaseName(phase)
    /\ page' = drawMoonIcon(pageWidth \div 2, margin + sizes.moonIconRadius, phase,
                            sizes.moonIconRadius)
    /\ pc' = "moonDone"
    /\ UNCHANGED << startDate, endDate, day, noaa, allCurrentData, allTideData,
                    allHourlyTideData, idx, book, blocks, currentsY, tidesY, phase >>

SpecMoon == InitMoon /\ [][MoonHeader]_vars

-----------------------------------------------------------------------------
(* main of fetch_data.js: the listing printed when the module is run directly *)

\* fetch_data.js:56-57, 88-89, 120-121: begin_date and end_date are formatted
\* before the try block; reading getFullYear of a date that was not passed
\* throws a TypeError, which rejects the fetch
FetchThrows(begin, end) == begin = Undefined \/ end = Undefined

\* fetch_data.js:152: one line of the tide listing
mainTideLine(p) ==
    [ev |-> "log", kind |-> IF p.type = "H" THEN "High" ELSE "Low", p |-> p]

\* fetch_data.js:167-171: the event type of the listing; the last branch echoes
\* the raw kind
mainEventType(p) ==
    IF p.Type = "slack" THEN "Slack"
    ELSE IF p.Type = "ebb" THEN "Max Ebb"
    ELSE IF p.Type = "flood" THEN "Max Flood"
    ELSE p.Type

\* fetch_data.js:173: one line of the current listing
mainCurrentLine(p) == [ev |-> "log", kind |-> mainEventType(p), p |-> p]

\* fetch_data.js:145-146 and 193-195
InitMain ==
    /\ pc = "mainTides"
    /\ startDate \in StartDates
    /\ endDate = startDate
    /\ \E rot \in 0..MaxPerDay, bad \in BadCases :
            noaa = World(rot, bad, DaysBetween(startDate, endDate))
    /\ day = startDate
    /\ allCurrentData = << >>
    /\ allTideData = << >>
    /\ allHourlyTideData = << >>
    /\ idx = 1
    /\ book = << >>
    /\ page = << >>
    /\ blocks = << >>
    /\ currentsY = 0
    /\ tidesY = 0
    /\ phase = 0
    /\ moonPhaseName = ""

\* fetch_data.js:147-157: one iteration of the tide listing; line 148 calls
\* fetchTideData(id) with no dates
MainTideStation ==
    /\ pc = "mainTides"
    /\ IF FetchThrows(Undefined, Undefined)
       THEN pc' = "crashed" /\ UNCHANGED << idx, book >>
       ELSE LET data == fetchTideData(tideStations[idx].id, Undefined, Undefined)
                ps == PredictionsOf(data)
            IN  /\ book' = book \o
                      ( IF "predictions" \in DOMAIN data
                        THEN [i \in 1..Len(ps) |-> mainTideLine(ps[i])]
                        ELSE << [ev |-> "log", kind |-> "No data found."] >> )
                /\ IF idx < Len(tideStations)
                   THEN idx' = idx + 1 /\ pc' = pc
                   ELSE idx' = 1 /\ pc' = "mainCurrents"
    /\ UNCHANGED << startDate, endDate, day, noaa, allCurrentData, allTideData,
                    allHourlyTideData, page, blocks, currentsY, tidesY, phase,
                    moonPhaseName >>

\* fetch_data.js:160-178: one iteration of the current listing; line 161 calls
\* fetchCurrentData(id) with no dates
MainCurrentStation ==
    /\ pc = "mainCurrents"
    /\ IF FetchThrows(Undefined, Undefined)
       THEN pc' = "crashed" /\ UNCHANGED << idx, book >>
       ELSE LET data == fetchCurrentData(currentStations[idx].id, Undefined, Undefined)
                cp == CpOf(data)
            IN  /\ book' = book \o
                      ( IF "current_predictions" \in DOMAIN data
                            /\ "cp" \in DOMAIN data.current_predictions
                        THEN [i \in 1..Len(cp) |-> mainCurrentLine(cp[i])]
                        ELSE << [ev |-> "log",
                                 kind |-> "No data found or error in response."] >> )
                /\ IF idx < Len(currentStations)
                   THEN idx' = idx + 1 /\ pc' = pc
                   ELSE idx' = 1 /\ pc' = "mainDone"
    /\ UNCHANGED << startDate, endDate, day, noaa, allCurrentData, allTideData,
                    allHourlyTideData, page, blocks, currentsY, tidesY, phase,
                    moonPhaseName >>

SpecMain == InitMain /\ [][MainTideStation \/ MainCurrentStation]_vars

-----------------------------------------------------------------------------
(* Claims about the moon phase *)

\* a/10000 <= phase < b/10000
PhaseIn(a, b) == a * PhaseUnit <= phase * 10000 /\ phase * 10000 < b * PhaseUnit

\* phase = a/b exactly
PhaseIs(a, b) == phase * b = a * PhaseUnit

DarkDisc ==
    [src |-> "moon", op |-> "circle", x |-> pageWidth \div 2,
     y |-> margin + sizes.moonIconRadius, r |-> sizes.moonIconRadius, fill |-> "dark"]
LightDisc == [DarkDisc EXCEPT !.fill = "light"]
IsSilhouette(o, key) == o.op = "path" /\ o.path = key /\ o.fill = "light"

\* C1: every illumination in [0,1) is classified into exactly the bucket of the
\* half-open interval it lies in, the cuts being 0.0625, 0.1875, 0.3125, 0.4375,
\* 0.5625, 0.6875, 0.8125, 0.9375 and New Moon covering [0,0.0625) and
\* [0.9375,1); 0.06 is New, 0.07 Waxing Crescent, 0.5 Full, 0.94 New
C1_PhaseBuckets ==
    pc = "moonDone" =>
        /\ moonPhaseName \in
              { "New Moon", "Waxing Crescent", "First Quarter", "Waxing Gibbous",
                "Full Moon", "Waning Gibbous", "Last Quarter", "Waning Crescent" }
        /\ (moonPhaseName = "New Moon") <=> (PhaseIn(0, 625) \/ PhaseIn(9375, 10000))
        /\ (moonPhaseName = "Waxing Crescent") <=> PhaseIn(625, 1875)
        /\ (moonPhaseName = "First Quarter") <=> PhaseIn(1875, 3125)
        /\ (moonPhaseName = "Waxing Gibbous") <=> PhaseIn(3125, 4375)
        /\ (moonPhaseName = "Full Moon") <=> PhaseIn(4375, 5625)
        /\ (moonPhaseName = "Waning Gibbous") <=> PhaseIn(5625, 6875)
        /\ (moonPhaseName = "Last Quarter") <=> PhaseIn(6875, 8125)
        /\ (moonPhaseName = "Waning Crescent") <=> PhaseIn(8125, 9375)
        /\ PhaseIs(6, 100) => moonPhaseName = "New Moon"
        /\ PhaseIs(7, 100) => moonPhaseName = "Waxing Crescent"
        /\ PhaseIs(1, 2) => moonPhaseName = "Full Moon"
        /\ PhaseIs(94, 100) => moonPhaseName = "New Moon"

\* an illumination on a cut (0.9375) has been classified
C1_Witness == pc = "moonDone" /\ PhaseIs(9375, 10000) /\ moonPhaseName = "New Moon"

\* C2 as claimed: at illumination 0.5625 the classifier returns Full and the icon
\* is the dark disc followed by a solid light disc, no silhouette path
C2_AsClaimed ==
    (pc = "moonDone" /\ PhaseIs(9, 16)) =>
        /\ moonPhaseName = "Full Moon"
        /\ page = << DarkDisc, LightDisc >>

\* C2 amended: at illumination 0.5625 the classifier returns Waning Gibbous and
\* the icon is the dark disc followed by the waning-gibbous silhouette; the solid
\* light disc without a silhouette is the icon of exactly [0.4375, 0.5625)
C2_BoundaryIsWaningGibbous ==
    pc = "moonDone" =>
        /\ PhaseIs(9, 16) =>
              /\ moonPhaseName = "Waning Gibbous"
              /\ Len(page) = 2
              /\ page[1] = DarkDisc
              /\ IsSilhouette(page[2], "waning_gibbous")
        /\ (page = << DarkDisc, LightDisc >>) <=> PhaseIn(4375, 5625)

\* illumination 0.5625 has been classified and drawn
C2_Witness == pc = "moonDone" /\ PhaseIs(9, 16) /\ Len(page) = 2

-----------------------------------------------------------------------------
(* Claims about the driver loop *)

RangeDays == DaysBetween(startDate, endDate)
Rendered == SelectSeq(book, LAMBDA e : e.ev = "render")
AddPages == SelectSeq(book, LAMBDA e : e.ev = "addPage")

\* C3: the days are rendered one by one from the start date on, each once and
\* in increasing order; the first day is drawn on the open page with no addPage
\* before it, every later day is drawn right after exactly one addPage with
\* nothing drawn in between, and when the loop ends every day of the range has
\* been rendered and the pages are as many as the days
C3_OnePagePerDay ==
    /\ Len(Rendered) <= Len(RangeDays)
    /\ \A i \in 1..Len(Rendered) : Rendered[i].day = RangeDays[i]
    /\ \A i \in 1..Len(book) :
          /\ book[i].ev = "render" =>
                IF book[i].day = startDate THEN i = 1
                ELSE i > 2 /\ book[i - 1].ev = "addPage" /\ book[i - 2].ev = "render"
          /\ book[i].ev = "addPage" =>
                /\ i > 1 /\ book[i - 1].ev = "render"
                /\ i = Len(book) => (pc = "header" /\ page = << >>)
                /\ i < Len(book) => book[i + 1].ev = "render"
    /\ pc = "done" =>
          /\ Len(Rendered) = Len(RangeDays)
          /\ Len(AddPages) + 1 = Len(RangeDays)

\* the loop has ended after rendering a range of more than one day
C3_Witness == pc = "done" /\ startDate # endDate /\ Len(AddPages) >= 1

-----------------------------------------------------------------------------
(* Claims about the station blocks *)

\* the station headings drawn on the page in a column, in drawing order
Headings(col) ==
    LET hs == SelectSeq(page, LAMBDA o : /\ o.src = col
                                         /\ o.op = "text"
                                         /\ o.font = "Helvetica-Bold")
    IN  [i \in 1..Len(hs) |-> hs[i].text[1]]

\* the page is no longer being drawn: the loop moved on, or the program stopped
PageLeft == pc \in {"loop", "done", "crashed"} /\ page # << >>

\* every block of an empty day is a heading followed by the placeholder line,
\* one data-line height below the heading's line
EmptyDaysShowPlaceholder ==
    \A i \in 1..Len(page) :
        (page[i].src \in {"current", "tide"} /\ page[i].font = "Helvetica-Oblique") =>
            /\ page[i].text = Placeholder
            /\ i > 1
            /\ page[i - 1].src = page[i].src
            /\ page[i - 1].font = "Helvetica-Bold"
            /\ page[i].y = page[i - 1].y + sizes.stationName
            /\ \E k \in 1..Len(blocks) :
                  /\ blocks[k].name = page[i - 1].text[1]
                  /\ blocks[k].bucket = << >>
                  /\ blocks[k].y1 = page[i].y + sizes.data + sizes.stationSpacing

\* C4: on every page every station of both catalogs gets its heading once and in
\* catalog order, whatever was fetched, and an empty day is the heading followed
\* by the placeholder line, which advances the cursor by one data-line height
C4_EveryHeadingOnEveryPage ==
    /\ EmptyDaysShowPlaceholder
    /\ PageLeft =>
          /\ Headings("current") = Names(currentStations)
          /\ Headings("tide") = Names(tideStations)

\* the plain tide blocks of the page: stations that are not graph stations
PlainTideBlocks ==
    { k \in 1..Len(blocks) :
        blocks[k].col = "tide" /\ blocks[k].name \notin graphStations }

\* C5 as claimed: a tide block without a graph advances the cursor by the heading
\* line plus two data-line heights plus the station spacing for 1 to 4 events,
\* the data-line height being what the placeholder of an empty day advances by
C5_AsClaimed ==
    \A k \in PlainTideBlocks :
        LET n == Len(blocks[k].bucket)
            advance == blocks[k].y1 - blocks[k].y0
        IN  /\ n = 0 => advance = sizes.stationName + sizes.data + sizes.stationSpacing
            /\ n \in 1..4 =>
                  advance = sizes.stationName + 2 * sizes.data + sizes.stationSpacing

\* C5 amended: a tide block without a graph advances the cursor by the heading
\* line plus two tide-line heights (7 points each) plus the station spacing, the
\* same for every count of 1 to 4 events; the placeholder of an empty day
\* advances by the data-line height (6 points), which is a different height
C5_TwoTideLines ==
    /\ sizes.tideLineHeight = 7 * LenUnit
    /\ sizes.data = 6 * LenUnit
    /\ \A k \in PlainTideBlocks :
        LET n == Len(blocks[k].bucket)
            advance == blocks[k].y1 - blocks[k].y0
        IN  /\ n = 0 => advance = sizes.stationName + sizes.data + sizes.stationSpacing
            /\ n \in 1..4 =>
                  advance = sizes.stationName + 2 * sizes.tideLineHeight
                                + sizes.stationSpacing

\* plain tide blocks of one and of four events have been laid out on a page
C5_Witness ==
    /\ \E k \in PlainTideBlocks : Len(blocks[k].bucket) = 1
    /\ \E k \in PlainTideBlocks : Len(blocks[k].bucket) = 4

CurrentBlocks == SelectSeq(blocks, LAMBDA b : b.col = "current")

\* what C6 says a current block of n events adds to the cursor
ClaimedCurrentAdvance(n) ==
    sizes.stationName
        + (IF n >= 1 THEN n * (sizes.data + sizes.lineSpacing) ELSE sizes.data)
        + sizes.stationSpacing

RECURSIVE SumClaimedAdvances(_, _)
SumClaimedAdvances(bs, k) ==
    IF k = 0 THEN 0
    ELSE SumClaimedAdvances(bs, k - 1) + ClaimedCurrentAdvance(Len(bs[k].bucket))

\* C6: a current block of n events advances the cursor by the heading line plus
\* n data lines with line spacing plus the station spacing, and by the heading
\* line plus one data line without line spacing plus the station spacing when
\* n = 0; the column's cursor is the shared start offset plus these advances
C6_CurrentColumnCursor ==
    LET bs == CurrentBlocks
    IN  /\ \A k \in 1..Len(bs) :
              /\ bs[k].y1 - bs[k].y0 = ClaimedCurrentAdvance(Len(bs[k].bucket))
              /\ bs[k].y0 = IF k = 1 THEN currentY ELSE bs[k - 1].y1
        /\ (pc \in {"currents", "tides"} \/ (pc = "loop" /\ blocks # << >>)) =>
              currentsY = currentY + SumClaimedAdvances(bs, Len(bs))

\* the current column of a page is complete, with an empty day and a day of
\* several events in it
C6_Witness ==
    /\ pc = "tides"
    /\ Len(CurrentBlocks) = Len(currentStations)
    /\ \E k \in 1..Len(CurrentBlocks) : CurrentBlocks[k].bucket = << >>
    /\ \E k \in 1..Len(CurrentBlocks) : Len(CurrentBlocks[k].bucket) >= 3

-----------------------------------------------------------------------------
(* Claims about day bucketing *)

\* the series fetched so far, each with the field that holds its timestamp
FetchedSeries ==
    { [events |-> CpOf(allCurrentData[n]), f |-> "Time"] : n \in DOMAIN allCurrentData }
        \cup { [events |-> PredictionsOf(allTideData[n]), f |-> "t"] :
                 n \in DOMAIN allTideData }

\* every event carries a timestamp dated on a day of the rendered range
DatedInRange(s) ==
    \A i \in 1..Len(s.events) :
        /\ Get(s.events[i], s.f).type = "string"
        /\ \E j \in 1..Len(RangeDays) :
              startsWith(Get(s.events[i], s.f).s, dayString(RangeDays[j]))

RECURSIVE ConcatBuckets(_, _)
\* the buckets of days 1..j of the range, one after the other
ConcatBuckets(s, j) ==
    IF j = 0 THEN << >>
    ELSE ConcatBuckets(s, j - 1) \o FilterDay(s.events, s.f, dayString(RangeDays[j]))

\* C7: for a fetched series whose events are all dated inside the range, the
\* per-day buckets the driver loop makes, concatenated in day order, give back
\* the series, no event is in the buckets of two days, and bucketing a bucket
\* for its own day changes nothing
C7_BucketsPartitionSeries ==
    \A s \in FetchedSeries :
        (pc = "loop" /\ DatedInRange(s)) =>
            /\ ConcatBuckets(s, Len(RangeDays)) = s.events
            /\ \A i, j \in 1..Len(RangeDays) :
                  i # j => DayIndices(s.events, s.f, dayString(RangeDays[i]))
                              \cap DayIndices(s.events, s.f, dayString(RangeDays[j])) = {}
            /\ \A j \in 1..Len(RangeDays) :
                  LET b == FilterDay(s.events, s.f, dayString(RangeDays[j]))
                  IN  FilterDay(b, s.f, dayString(RangeDays[j])) = b

\* a range of several days has been rendered from a series with events on more
\* than one day, all dated inside the range
C7_Witness ==
    /\ pc = "done"
    /\ Len(RangeDays) >= 2
    /\ \E s \in FetchedSeries :
          /\ DatedInRange(s)
          /\ FilterDay(s.events, s.f, dayString(RangeDays[1])) # << >>
          /\ FilterDay(s.events, s.f, dayString(RangeDays[2])) # << >>

-----------------------------------------------------------------------------
(* Claims about the tide graph *)

\* the blocks of graph stations on the page
GraphStationBlocks ==
    { k \in 1..Len(blocks) : blocks[k].col = "tide" /\ blocks[k].name \in graphStations }

\* C8: a graph station with fewer than 2 samples for the day gets no graph and
\* its block advances the cursor exactly as the block of a station without a
\* graph does
C8_FewSamplesNoGraphAdvance ==
    \A k \in GraphStationBlocks :
        Len(blocks[k].bucket) < 2 =>
            /\ blocks[k].graphOps = << >>
            /\ blocks[k].y1 - blocks[k].y0 =
                  sizes.stationName + TideTextAdvance(Len(blocks[k].bucket))
                      + sizes.stationSpacing

\* the samples handed to drawTideGraph all have the same value
ZeroValueRange(samples) ==
    \A i, j \in 1..Len(samples) : samples[i].v = samples[j].v

\* C9: when the samples are at least 2 and all of one value, no curve is
\* produced: nothing of the graph is drawn, so nothing is drawn at a NaN
\* coordinate
C9_ZeroRangeDeclined ==
    \A k \in GraphStationBlocks :
        (Len(blocks[k].bucket) >= 2 /\ ZeroValueRange(blocks[k].bucket)) =>
            /\ blocks[k].graphOps = << >>
            /\ \A i \in 1..Len(blocks[k].graphOps) :
                  blocks[k].graphOps[i].x.k # "NaN" /\ blocks[k].graphOps[i].y.k # "NaN"

-----------------------------------------------------------------------------
(* Claims about timestamps *)

\* every event fetched so far, with the field that holds its timestamp
FetchedEvents ==
    UNION { { [p |-> s.events[i], f |-> s.f] : i \in 1..Len(s.events) } :
              s \in FetchedSeries }

\* a timestamp that is a string of exactly '<date> <time>'
WellFormedStamp(v) == v.type = "string" /\ Len(split(v.s)) = 2

\* C10: formatTime gives the empty string for a missing, non-string or
\* not-two-part timestamp and the time part otherwise, and the per-day
\* processing of a series never fails, whatever its events' timestamps are
C10_BadTimestampNeverAborts ==
    /\ \A e \in FetchedEvents :
          IF WellFormedStamp(Get(e.p, e.f))
          THEN formatTime(Get(e.p, e.f)) = split(Get(e.p, e.f).s)[2]
          ELSE formatTime(Get(e.p, e.f)) = << >>
    /\ pc # "crashed"

-----------------------------------------------------------------------------
(* Claims about the rows of current events *)

\* the rows of current events on the page: the event of a finished current
\* block with the speed and event-type texts drawn for it, which follow the
\* block's heading three texts to a row
CurrentRows ==
    UNION { UNION { { [p |-> blocks[k].bucket[i], speed |-> page[h + 3 * i - 2].text,
                       label |-> page[h + 3 * i - 1].text] :
                        i \in 1..Len(blocks[k].bucket) } :
                    h \in { g \in 1..Len(page) :
                               /\ page[g].src = "current"
                               /\ page[g].font = "Helvetica-Bold"
                               /\ page[g].text = << blocks[k].name >> } } :
            k \in { j \in 1..Len(blocks) : blocks[j].col = "current" } }

\* the text is a number with an optional sign and exactly one decimal
IsOneDecimal(text) ==
    LET digits == IF text # << >> /\ text[1] = "-" THEN Tail(text) ELSE text
        n == Len(digits)
    IN  /\ n >= 3
        /\ digits[n - 1] = "."
        /\ \A j \in (1..n) \ {n - 1} : IsDigit(digits[j])

\* C11: every current event drawn on the page is labelled 'max ebb' for the raw
\* kind 'ebb', 'max flood' for 'flood' and 'slack' for any other raw kind; its
\* speed is empty exactly when the label is 'slack' and is otherwise the signed
\* velocity to one decimal
C11_LabelAndSpeed ==
    \A r \in CurrentRows :
        /\ r.label = CASE r.p.Type = "ebb" -> << "max ebb" >>
                        [] r.p.Type = "flood" -> << "max flood" >>
                        [] OTHER -> << "slack" >>
        /\ (r.speed = << >>) <=> (r.label = << "slack" >>)
        /\ r.label # << "slack" >> =>
              /\ IsOneDecimal(r.speed)
              /\ (r.speed[1] = "-") <=> (r.p.Velocity_Major < 0)
              /\ r.speed = toFixed1(r.p.Velocity_Major)

\* a page shows rows of an ebb, a flood, a slack and an event of another kind
C11_Witness ==
    /\ pc = "tides"
    /\ \A kind \in {"ebb", "flood", "slack"} : \E r \in CurrentRows : r.p.Type = kind
    /\ \E r \in CurrentRows : r.p.Type \notin {"ebb", "flood", "slack"}

\* C12: a current event of a raw kind other than 'ebb', 'flood' and 'slack' is
\* drawn in the page's current column with its raw kind echoed unchanged as
\* the event-type label
C12_RawKindEchoed ==
    \A r \in CurrentRows :
        r.p.Type \notin {"ebb", "flood", "slack"} => r.label = << r.p.Type >>

-----------------------------------------------------------------------------
(* Claims about the samples of the tide graph *)

\* the station's separately fetched hourly samples of the day being rendered
HourlyForDay(name) ==
    FilterDay(PredictionsOf(allHourlyTideData[name]), "t", dayString(day))

\* what drawTideGraph draws for the block from the given samples
GraphFrom(k, samples) ==
    drawTideGraph(samples, dividerX + margin, blocks[k].y0,
                  pageWidth - dividerX - margin * 2, sizes.graphHeight)

\* what the code does: the graph of a block is drawn, when the day has events,
\* from the block's hi-lo events
GraphDrawnFromHiLo ==
    pc = "tides" =>
        \A k \in GraphStationBlocks :
            blocks[k].graphOps =
                IF blocks[k].bucket # << >> THEN GraphFrom(k, blocks[k].bucket) ELSE << >>

\* C13: for every graph station and day, the tide curve is normalized and drawn
\* from the station's hourly samples of the day, not from its hi-lo events
C13_CurveFromHourly ==
    pc = "tides" =>
        \A k \in GraphStationBlocks :
            blocks[k].graphOps = GraphFrom(k, HourlyForDay(blocks[k].name))

====
